---- MODULE Spec2Model ----
(***************************************************************************)
(* Model of scripts/data_processor.py: load_and_clean_data, the twelve     *)
(* calculate_* views and main.                                              *)
(*                                                                          *)
(* Numbers.  Money is counted in mills (1/1000 of a dollar) so that a sum   *)
(* can carry a third decimal and round(x, 2) is a real operation; a value   *)
(* rounded to 2 decimals is counted in cents, a percentage rounded to 2     *)
(* decimals in hundredths of a percent.  Arithmetic is exact (decimal), so  *)
(* binary floating point representation error is outside the model; the     *)
(* IEEE special values NaN, +inf and -inf that float division produces are  *)
(* modelled.  A float is the pair <<"fin", n>>, <<"nan", 0>>, <<"inf", 1>>   *)
(* or <<"inf", -1>>.                                                        *)
(***************************************************************************)
EXTENDS Integers, Sequences, FiniteSets, TLC

VARIABLES
    raw,             \* the table read_excel yields (the Source)
    df,              \* main's df, the cleaned table
    pc,              \* main's position
    out,             \* the results of the views computed so far, by document key
    dashboard_data,  \* main's dashboard_data
    file,            \* dashboard_data.json (the Sink)
    failed           \* the stage that raised, "none" if none did

vars == <<raw, df, pc, out, dashboard_data, file, failed>>

-----------------------------------------------------------------------------
(* Bounds of the model *)

\* rows of the sheet in the run of main
MaxRows == 2
\* rows of the sheet, and cells of it that are missing or malformed, when
\* load_and_clean_data is checked
MaxNormRows == 1
MaxCorrupt == 1
\* rows of the sheet when the monthly trend is checked
MaxMonthlyRows == 3
\* rows of the sheet when the category view is checked
MaxCategoryRows == 2
\* rows of the sheet when all views are checked together
MaxViewRows == 2

-----------------------------------------------------------------------------
(* Cells of the raw table *)

\* a missing cell of a text column (pandas NaN / None)
None == "<NA>"

Num(n) == [t |-> "num", v |-> n]
\* text that spells the number n
Txt(n) == [t |-> "txt", v |-> n]
\* text that spells nothing parsable
Bad == [t |-> "bad", v |-> 0]
\* a missing cell of a non-text column (NaN / NaT)
NA == [t |-> "na", v |-> 0]
Bool(b) == [t |-> "bool", v |-> IF b THEN 1 ELSE 0]
\* a datetime; v is the number of days since Monday 2024-01-01
Date(d) == [t |-> "date", v |-> d]

IsNA(c) == c.t = "na"

\* every text value of the model, in Python's string order (code points);
\* groupby(sort=True) orders text keys this way
Collation ==
    << "A1", "A2", "Affiliate", "Books", "Cancelled", "Card", "Cash",
       "Completed", "DHL", "EU", "Electronics", "FedEx", "France", "Kindle",
       "Lamp", "Online", "Returned", "US", "Unknown", "Unknown Brand",
       "Zen", "a@x.com", "b@x.com" >>

\* position of a text value in the collation; a missing value has none
Rank(s) == IF s = None THEN 0 - 1 ELSE CHOOSE i \in 1..Len(Collation) : Collation[i] = s

AllColumns ==
    { "Order Id", "Buyer_Email", "ProductName", "Category", "Brand", "Region",
      "Country", "Payment_Method", "Courier", "Channel", "Order_Status",
      "Revenue_USD", "Profit", "UnitsSold", "UnitPrice", "Shipping_Cost",
      "TaxAmount", "DiscountAmount", "Refund_Amount", "DiscountRate",
      "Payment_Fees", "Prime_Member", "Late Deliveries?", "OrderDate",
      "Shipping_Date", "Expected_Delivery_Date", "Days " }

-----------------------------------------------------------------------------
(* Rounding and float arithmetic *)

Fin(n) == <<"fin", n>>
NaN == <<"nan", 0>>
PosInf == <<"inf", 1>>
NegInf == <<"inf", 0 - 1>>
IsFinite(x) == x[1] = "fin"

\* floor of a / b for b > 0
FloorDiv(a, b) == IF a >= 0 THEN a \div b ELSE 0 - ((b - 1 - a) \div b)

\* a / b rounded to the nearest integer, ties to the even one (numpy
\* around, Python round), b > 0
RoundHalfEven(a, b) ==
    LET q == FloorDiv(a, b)
        r == a - q * b
    IN  IF 2 * r < b THEN q
        ELSE IF 2 * r > b THEN q + 1
        ELSE IF q % 2 = 0 THEN q ELSE q + 1

\* round(x, 2) of an amount of mills, in cents
Round2(mills) == RoundHalfEven(mills, 10)

\* float division a / b of two numbers in the same unit, times scale, then
\* rounded to an integer number of units of 1/scale: division by zero gives
\* nan or an infinity (numpy semantics, no exception)
RoundedRatio(a, b, scale) ==
    IF b = 0 THEN (IF a = 0 THEN NaN ELSE IF a > 0 THEN PosInf ELSE NegInf)
    ELSE IF b > 0 THEN Fin(RoundHalfEven(a * scale, b))
    ELSE Fin(RoundHalfEven((0 - a) * scale, 0 - b))

\* (a / b * 100).round(2), in hundredths of a percent
Pct(a, b) == RoundedRatio(a, b, 10000)

\* float addition
FAdd(x, y) ==
    IF x[1] = "nan" \/ y[1] = "nan" THEN NaN
    ELSE IF x[1] = "inf" /\ y[1] = "inf" THEN (IF x[2] = y[2] THEN x ELSE NaN)
    ELSE IF x[1] = "inf" THEN x
    ELSE IF y[1] = "inf" THEN y
    ELSE Fin(x[2] + y[2])

RECURSIVE SumSeq(_)
SumSeq(s) == IF s = <<>> THEN 0 ELSE Head(s) + SumSeq(Tail(s))

Range(s) == { s[i] : i \in 1..Len(s) }

-----------------------------------------------------------------------------
(* Calendar: OrderDate.dt.year / month / dayofweek / strftime / to_period *)

EpochYear == 2024

IsLeap(y) == y % 4 = 0
DaysInYear(y) == IF IsLeap(y) THEN 366 ELSE 365
DaysInMonth(y, m) ==
    IF m = 2 THEN (IF IsLeap(y) THEN 29 ELSE 28)
    ELSE IF m \in {4, 6, 9, 11} THEN 30 ELSE 31

RECURSIVE YearFrom(_, _)
YearFrom(d, y) == IF d < DaysInYear(y) THEN y ELSE YearFrom(d - DaysInYear(y), y + 1)
RECURSIVE DayOfYearFrom(_, _)
DayOfYearFrom(d, y) == IF d < DaysInYear(y) THEN d ELSE DayOfYearFrom(d - DaysInYear(y), y + 1)
RECURSIVE MonthFrom(_, _, _)
MonthFrom(d, y, m) == IF d < DaysInMonth(y, m) THEN m ELSE MonthFrom(d - DaysInMonth(y, m), y, m + 1)

YearOf(d) == YearFrom(d, EpochYear)
MonthOf(d) == MonthFrom(DayOfYearFrom(d, EpochYear), YearOf(d), 1)
\* Monday = 0; the epoch is a Monday
DayOfWeekOf(d) == d % 7

MonthNames == << "Jan", "Feb", "Mar", "Apr", "May", "Jun", "Jul", "Aug", "Sep", "Oct", "Nov", "Dec" >>
DayNames == << "Monday", "Tuesday", "Wednesday", "Thursday", "Friday", "Saturday", "Sunday" >>

\* the integer missing value of Year, Month and DayOfWeek (NaN)
NoInt == 0 - 1
\* the period text 'NaT', which sorts after every 'YYYY-MM'
NaTPeriod == 999999
\* the period text 'YYYY-MM' as the number YYYYMM (same order as the text)
YearMonthOf(d) == YearOf(d) * 100 + MonthOf(d)

-----------------------------------------------------------------------------
(* load_and_clean_data *)

\* Series.fillna(value) on a text column
FillNa(c, value) == IF c = None THEN value ELSE c

\* pd.to_datetime(..., errors='coerce') of one cell; without errors='coerce'
\* the cells are converted the same way and an unparsable one raises
ToDatetime(c) == IF c.t \in {"date", "txt"} THEN Date(c.v) ELSE NA

\* pd.to_numeric(..., errors='coerce') of one cell
ToNumeric(c) == IF c.t \in {"num", "txt"} THEN Num(c.v) ELSE NA

\* Series.fillna(0) on a numeric column
FillNa0(c) == IF IsNA(c) THEN Num(0) ELSE c

\* .fillna(0).astype(str) == '1': the flag read off its spelling
AsBool_spelling(c) == Bool(FillNa0(c).t = "num" /\ FillNa0(c).v = 1)

\* .fillna(0).astype(bool): bool(x) of each cell; a non-empty text is True
AsBool(c) ==
    LET f == FillNa0(c)
    IN  IF f.t = "bool" THEN f
        ELSE IF f.t = "num" THEN Bool(f.v # 0)
        ELSE Bool(TRUE)

\* str.lower on the spellings of the late indicator
Lower(s) ==
    IF s \in {"Yes", "YES", "yes"} THEN "yes"
    ELSE IF s \in {"No", "NO", "no"} THEN "no"
    ELSE s

\* lambda x: True if str(x).lower() == 'yes' else False
IsLateOf(x) == Lower(x) = "yes"

numeric_cols ==
    { "Revenue_USD", "Profit", "UnitsSold", "UnitPrice", "Shipping_Cost",
      "TaxAmount", "DiscountAmount", "Refund_Amount" }

\* the columns load_and_clean_data subscripts without a guard
LoadColumns ==
    { "Category", "Brand", "Region", "Country", "Payment_Method", "Courier",
      "OrderDate", "Shipping_Date", "Expected_Delivery_Date", "Prime_Member",
      "Late Deliveries?" }

DerivedColumns == { "IsLate", "Year", "Month", "MonthName", "DayOfWeek", "DayName", "YearMonth" }

\* one numeric column of one row: cleaned only if the column exists
CleanNumeric(c, col, columns) == IF col \in columns THEN FillNa0(ToNumeric(c)) ELSE c

\* the cleaning steps applied to one row
CleanRow(r, columns) ==
    LET od == ToDatetime(r.OrderDate)
        late == FillNa(r.Late_Deliveries, "No")
        has == ~IsNA(od)
    IN  [ Order_Id |-> r.Order_Id,
          Buyer_Email |-> r.Buyer_Email,
          ProductName |-> r.ProductName,
          Category |-> FillNa(r.Category, "Unknown"),
          Brand |-> FillNa(r.Brand, "Unknown Brand"),
          Region |-> FillNa(r.Region, "Unknown"),
          Country |-> FillNa(r.Country, "Unknown"),
          Payment_Method |-> FillNa(r.Payment_Method, "Unknown"),
          Courier |-> FillNa(r.Courier, "Unknown"),
          Channel |-> r.Channel,
          Order_Status |-> r.Order_Status,
          OrderDate |-> od,
          Shipping_Date |-> ToDatetime(r.Shipping_Date),
          Expected_Delivery_Date |-> ToDatetime(r.Expected_Delivery_Date),
          Revenue_USD |-> CleanNumeric(r.Revenue_USD, "Revenue_USD", columns),
          Profit |-> CleanNumeric(r.Profit, "Profit", columns),
          UnitsSold |-> CleanNumeric(r.UnitsSold, "UnitsSold", columns),
          UnitPrice |-> CleanNumeric(r.UnitPrice, "UnitPrice", columns),
          Shipping_Cost |-> CleanNumeric(r.Shipping_Cost, "Shipping_Cost", columns),
          TaxAmount |-> CleanNumeric(r.TaxAmount, "TaxAmount", columns),
          DiscountAmount |-> CleanNumeric(r.DiscountAmount, "DiscountAmount", columns),
          Refund_Amount |-> CleanNumeric(r.Refund_Amount, "Refund_Amount", columns),
          DiscountRate |-> r.DiscountRate,
          Payment_Fees |-> r.Payment_Fees,
          Days |-> r.Days,
          Prime_Member |-> AsBool(r.Prime_Member),
          Late_Deliveries |-> late,
          IsLate |-> IsLateOf(late),
          Year |-> IF has THEN YearOf(od.v) ELSE NoInt,
          Month |-> IF has THEN MonthOf(od.v) ELSE NoInt,
          MonthName |-> IF has THEN MonthNames[MonthOf(od.v)] ELSE None,
          DayOfWeek |-> IF has THEN DayOfWeekOf(od.v) ELSE NoInt,
          DayName |-> IF has THEN DayNames[DayOfWeekOf(od.v) + 1] ELSE None,
          YearMonth |-> IF has THEN YearMonthOf(od.v) ELSE NaTPeriod ]

\* the cleaning steps (lines 31-62) applied to a table
CleanTable(t) ==
    [ columns |-> t.columns \cup DerivedColumns,
      rows |-> [ i \in 1..Len(t.rows) |-> CleanRow(t.rows[i], t.columns) ] ]

\* load_and_clean_data raises: KeyError on a column it subscripts, or
\* to_datetime on an OrderDate it cannot parse
LoadRaises(t) ==
    \/ ~(LoadColumns \subseteq t.columns)
    \/ \E i \in 1..Len(t.rows) : t.rows[i].OrderDate.t = "bad"

-----------------------------------------------------------------------------
(* pandas helpers used by the views *)

\* df[df['Order_Status'] == 'Completed']
Completed(t) == SelectSeq(t.rows, LAMBDA r : r.Order_Status = "Completed")

\* lexicographic order of two key tuples of the same length
KeyLess(a, b) ==
    \E i \in 1..Len(a) : a[i] < b[i] /\ \A j \in 1..(i - 1) : a[j] = b[j]

RECURSIVE SortKeys(_)
SortKeys(S) ==
    IF S = {} THEN <<>>
    ELSE LET m == CHOOSE x \in S : \A y \in S : x = y \/ KeyLess(x, y)
         IN  <<m>> \o SortKeys(S \ {m})

\* groupby(...) with the defaults sort=True, dropna=True: the groups in key
\* order, a row with a missing key component left out.  Key[r] is the tuple
\* of the key values of row r (text as its collation rank, missing as -1).
GroupBy(rows, Key) ==
    LET keys == { Key[rows[i]] : i \in 1..Len(rows) }
        kept == { k \in keys : \A j \in 1..Len(k) : k[j] # 0 - 1 }
        order == SortKeys(kept)
    IN  [ n \in 1..Len(order) |-> SelectSeq(rows, LAMBDA r : Key[r] = order[n]) ]

\* Series.sum() of a numeric column: missing cells are skipped
Sum(rows, col) == SumSeq([ i \in 1..Len(rows) |-> IF IsNA(rows[i][col]) THEN 0 ELSE rows[i][col].v ])

\* the cells Series.mean() divides by: those that are not missing
Count(rows, col) == Cardinality({ i \in 1..Len(rows) : ~IsNA(rows[i][col]) })

\* Series.nunique() of a text column: missing cells are not counted
NUnique(rows, col) == Cardinality({ rows[i][col] : i \in 1..Len(rows) } \ {None})

\* IsLate.sum(): the rows that are late
LateCount(rows) == Cardinality({ i \in 1..Len(rows) : rows[i].IsLate })

\* sum of one field of a sequence of result rows
Total(res, f) == SumSeq([ i \in 1..Len(res) |-> res[i][f] ])

Remove(s, i) == SubSeq(s, 1, i - 1) \o SubSeq(s, i + 1, Len(s))

\* sort_values(f): ascending by f, rows with equal f in their original order
RECURSIVE SortAscending(_, _)
SortAscending(res, f) ==
    IF res = <<>> THEN <<>>
    ELSE LET i == CHOOSE i \in 1..Len(res) :
                      /\ \A j \in 1..Len(res) : res[i][f] <= res[j][f]
                      /\ \A j \in 1..(i - 1) : res[i][f] < res[j][f]
         IN  <<res[i]>> \o SortAscending(Remove(res, i), f)

\* the ascending=False left out
SortDescending_ascending(res, f) == SortAscending(res, f)

\* sort_values(f, ascending=False) / nlargest(n, f): descending by f, rows
\* with equal f in their original order
RECURSIVE SortDescending(_, _)
SortDescending(res, f) ==
    IF res = <<>> THEN <<>>
    ELSE LET i == CHOOSE i \in 1..Len(res) :
                      /\ \A j \in 1..Len(res) : res[j][f] <= res[i][f]
                      /\ \A j \in 1..(i - 1) : res[j][f] < res[i][f]
         IN  <<res[i]>> \o SortDescending(Remove(res, i), f)

\* DataFrame.head(n)
HeadN(res, n) == SubSeq(res, 1, IF Len(res) < n THEN Len(res) ELSE n)

\* Series.cumsum() with skipna: a nan entry stays nan and is left out of the
\* running total
RECURSIVE CumSum(_, _)
CumSum(xs, acc) ==
    IF xs = <<>> THEN <<>>
    ELSE IF Head(xs) = NaN THEN <<NaN>> \o CumSum(Tail(xs), acc)
    ELSE <<FAdd(acc, Head(xs))>> \o CumSum(Tail(xs), FAdd(acc, Head(xs)))

\* x <= n for a float x (a comparison with nan is False)
FLeq(x, n) == IF x[1] = "fin" THEN x[2] <= n ELSE x[1] = "inf" /\ x[2] < 0

\* Series.fillna(value) on a float column
FFillNa(x, value) == IF x = NaN THEN value ELSE x

-----------------------------------------------------------------------------
(* calculate_kpis *)

KpiColumns ==
    { "Order_Status", "Revenue_USD", "Profit", "Order Id", "UnitsSold",
      "Buyer_Email", "Prime_Member", "IsLate", "ProductName", "Country",
      "DiscountRate", "OrderDate" }

\* the OrderDate values of ALL rows that are not NaT (min and max skip NaT)
OrderDates(t) == { t.rows[i].OrderDate.v : i \in { j \in 1..Len(t.rows) : ~IsNA(t.rows[j].OrderDate) } }

SetMin(S) == CHOOSE x \in S : \A y \in S : x <= y
SetMax(S) == CHOOSE x \in S : \A y \in S : y <= x

\* strftime('%b %Y')
MonthYear(d) == << MonthNames[MonthOf(d)], YearOf(d) >>

\* f"{df['OrderDate'].min().strftime('%b %Y')} - {df['OrderDate'].max()...}"
data_period(t) == << MonthYear(SetMin(OrderDates(t))), MonthYear(SetMax(OrderDates(t))) >>

\* KeyError on a missing column, or NaT.strftime (no row has a date)
KpisRaises(t) == ~(KpiColumns \subseteq t.columns) \/ OrderDates(t) = {}

calculate_kpis(t) ==
    LET c == Completed(t)
    IN  [ total_revenue |-> Round2(Sum(c, "Revenue_USD")),
          total_profit |-> Round2(Sum(c, "Profit")),
          total_orders |-> NUnique(c, "Order_Id"),
          total_units_sold |-> Sum(c, "UnitsSold"),
          avg_order_value |-> RoundedRatio(Sum(c, "Revenue_USD"), 10 * Len(c), 1),
          profit_margin |-> Pct(Sum(c, "Profit"), Sum(c, "Revenue_USD")),
          unique_customers |-> NUnique(c, "Buyer_Email"),
          prime_member_pct |-> Pct(Sum(c, "Prime_Member"), Len(c)),
          late_delivery_pct |-> Pct(LateCount(c), Len(c)),
          unique_products |-> NUnique(c, "ProductName"),
          unique_countries |-> NUnique(c, "Country"),
          avg_discount_rate |-> RoundedRatio(Sum(c, "DiscountRate"), Count(c, "DiscountRate"), 10),
          data_period |-> data_period(t) ]

-----------------------------------------------------------------------------
(* calculate_monthly_trends *)

MonthlyColumns == { "Order_Status", "YearMonth", "Revenue_USD", "Profit", "Order Id", "UnitsSold" }

\* (revenue.pct_change() * 100).round(2): nan in the first row
pct_change(agg, i) ==
    IF i = 1 THEN NaN
    ELSE Pct(agg[i].revenue - agg[i - 1].revenue, agg[i - 1].revenue)

\* ... .fillna(0)
revenue_growth(agg, i) == FFillNa(pct_change(agg, i), Fin(0))

\* rolling(window=3, min_periods=1): a partial average in the first two rows
rolling_mean3_partial(agg, i) ==
    IF i = 1 THEN Fin(agg[1].revenue)
    ELSE IF i = 2 THEN Fin(RoundHalfEven(agg[1].revenue + agg[2].revenue, 2))
    ELSE Fin(RoundHalfEven(agg[i].revenue + agg[i - 1].revenue + agg[i - 2].revenue, 3))

\* revenue.rolling(window=3).mean().round(2): nan in the first two rows
rolling_mean3(agg, i) ==
    IF i < 3 THEN NaN
    ELSE Fin(RoundHalfEven(agg[i].revenue + agg[i - 1].revenue + agg[i - 2].revenue, 3))

\* ... .fillna(monthly['revenue'])
revenue_ma3(agg, i) == FFillNa(rolling_mean3(agg, i), Fin(agg[i].revenue))

calculate_monthly_trends(t) ==
    LET g == GroupBy(Completed(t), [r \in Range(Completed(t)) |-> <<r.YearMonth>>])
        agg == [ n \in 1..Len(g) |->
                   [ month |-> g[n][1].YearMonth,
                     revenue |-> Round2(Sum(g[n], "Revenue_USD")),
                     profit |-> Round2(Sum(g[n], "Profit")),
                     orders |-> NUnique(g[n], "Order_Id"),
                     units |-> Sum(g[n], "UnitsSold") ] ]
    IN  [ n \in 1..Len(agg) |->
            [ month |-> agg[n].month,
              revenue |-> agg[n].revenue,
              profit |-> agg[n].profit,
              orders |-> agg[n].orders,
              units |-> agg[n].units,
              revenue_growth |-> revenue_growth(agg, n),
              revenue_ma3 |-> revenue_ma3(agg, n) ] ]

-----------------------------------------------------------------------------
(* calculate_category_performance *)

CategoryColumns == { "Order_Status", "Category", "Revenue_USD", "Profit", "Order Id", "UnitsSold" }

\* the margin taken from the sums before they are rounded
category_profit_margin_unrounded(row, g) == Pct(Sum(g, "Profit"), Sum(g, "Revenue_USD"))

\* (category['profit'] / category['revenue'] * 100).round(2), after both
\* columns were rounded; g is the group the row aggregates
category_profit_margin(row, g) == Pct(row.profit, row.revenue)

\* lambda x: 'Top Performer' if x <= 80 else 'Supporting'
pareto_class(x) == IF FLeq(x, 8000) THEN "Top Performer" ELSE "Supporting"

calculate_category_performance(t) ==
    LET g == GroupBy(Completed(t), [r \in Range(Completed(t)) |-> <<Rank(r.Category)>>])
        agg == [ n \in 1..Len(g) |->
                   [ category |-> g[n][1].Category,
                     revenue |-> Round2(Sum(g[n], "Revenue_USD")),
                     profit |-> Round2(Sum(g[n], "Profit")),
                     orders |-> NUnique(g[n], "Order_Id"),
                     units |-> Sum(g[n], "UnitsSold") ] ]
        total == Total(agg, "revenue")
        shared == [ n \in 1..Len(agg) |->
                      [ category |-> agg[n].category,
                        revenue |-> agg[n].revenue,
                        profit |-> agg[n].profit,
                        orders |-> agg[n].orders,
                        units |-> agg[n].units,
                        profit_margin |-> category_profit_margin(agg[n], g[n]),
                        revenue_share |-> Pct(agg[n].revenue, total) ] ]
        sorted == SortDescending(shared, "revenue")
        cum == CumSum([ n \in 1..Len(sorted) |-> sorted[n].revenue_share ], Fin(0))
    IN  [ n \in 1..Len(sorted) |->
            [ category |-> sorted[n].category,
              revenue |-> sorted[n].revenue,
              profit |-> sorted[n].profit,
              orders |-> sorted[n].orders,
              units |-> sorted[n].units,
              profit_margin |-> sorted[n].profit_margin,
              revenue_share |-> sorted[n].revenue_share,
              cumulative_share |-> cum[n],
              pareto_class |-> pareto_class(cum[n]) ] ]

-----------------------------------------------------------------------------
(* calculate_regional_performance *)

RegionalColumns == { "Order_Status", "Region", "Country", "Revenue_USD", "Profit", "Order Id", "Buyer_Email" }

calculate_regional_performance(t) ==
    LET g == GroupBy(Completed(t), [r \in Range(Completed(t)) |-> <<Rank(r.Region), Rank(r.Country)>>])
        agg == [ n \in 1..Len(g) |->
                   [ region |-> g[n][1].Region,
                     country |-> g[n][1].Country,
                     revenue |-> Round2(Sum(g[n], "Revenue_USD")),
                     profit |-> Round2(Sum(g[n], "Profit")),
                     orders |-> NUnique(g[n], "Order_Id"),
                     customers |-> NUnique(g[n], "Buyer_Email") ] ]
    IN  [ n \in 1..Len(agg) |->
            [ region |-> agg[n].region,
              country |-> agg[n].country,
              revenue |-> agg[n].revenue,
              profit |-> agg[n].profit,
              orders |-> agg[n].orders,
              customers |-> agg[n].customers,
              avg_order_value |-> RoundedRatio(agg[n].revenue, agg[n].orders, 1),
              revenue_per_customer |-> RoundedRatio(agg[n].revenue, agg[n].customers, 1) ] ]

-----------------------------------------------------------------------------
(* calculate_channel_performance *)

ChannelColumns == { "Order_Status", "Channel", "Revenue_USD", "Profit", "Order Id", "UnitsSold" }

calculate_channel_performance(t) ==
    LET g == GroupBy(Completed(t), [r \in Range(Completed(t)) |-> <<Rank(r.Channel)>>])
        agg == [ n \in 1..Len(g) |->
                   [ channel |-> g[n][1].Channel,
                     revenue |-> Round2(Sum(g[n], "Revenue_USD")),
                     profit |-> Round2(Sum(g[n], "Profit")),
                     orders |-> NUnique(g[n], "Order_Id"),
                     units |-> Sum(g[n], "UnitsSold") ] ]
        total == Total(agg, "revenue")
    IN  SortDescending(
            [ n \in 1..Len(agg) |->
                [ channel |-> agg[n].channel,
                  revenue |-> agg[n].revenue,
                  profit |-> agg[n].profit,
                  orders |-> agg[n].orders,
                  units |-> agg[n].units,
                  market_share |-> Pct(agg[n].revenue, total) ] ],
            "revenue")

-----------------------------------------------------------------------------
(* calculate_payment_analysis *)

PaymentColumns == { "Order_Status", "Payment_Method", "Revenue_USD", "Order Id", "Payment_Fees" }

calculate_payment_analysis(t) ==
    LET g == GroupBy(Completed(t), [r \in Range(Completed(t)) |-> <<Rank(r.Payment_Method)>>])
        agg == [ n \in 1..Len(g) |->
                   [ payment_method |-> g[n][1].Payment_Method,
                     revenue |-> Round2(Sum(g[n], "Revenue_USD")),
                     avg_order_value |-> RoundedRatio(Sum(g[n], "Revenue_USD"), 10 * Len(g[n]), 1),
                     orders |-> NUnique(g[n], "Order_Id"),
                     fees |-> Round2(Sum(g[n], "Payment_Fees")) ] ]
        total == Total(agg, "revenue")
    IN  SortDescending(
            [ n \in 1..Len(agg) |->
                [ payment_method |-> agg[n].payment_method,
                  revenue |-> agg[n].revenue,
                  avg_order_value |-> agg[n].avg_order_value,
                  orders |-> agg[n].orders,
                  fees |-> agg[n].fees,
                  share |-> Pct(agg[n].revenue, total) ] ],
            "revenue")

-----------------------------------------------------------------------------
(* calculate_day_of_week_analysis *)

DayColumns == { "Order_Status", "DayOfWeek", "DayName", "Revenue_USD", "Order Id" }

calculate_day_of_week_analysis(t) ==
    \* DayName is a function of DayOfWeek, so the pair orders as DayOfWeek
    \* does and is missing exactly when DayOfWeek is
    LET g == GroupBy(Completed(t), [r \in Range(Completed(t)) |-> <<r.DayOfWeek>>])
        agg == [ n \in 1..Len(g) |->
                   [ day_num |-> g[n][1].DayOfWeek,
                     day_name |-> g[n][1].DayName,
                     revenue |-> Round2(Sum(g[n], "Revenue_USD")),
                     orders |-> NUnique(g[n], "Order_Id") ] ]
        \* avg_revenue = daily['revenue'].mean() = total / Len(agg), so
        \* revenue / avg_revenue = revenue * Len(agg) / total
        total == Total(agg, "revenue")
    IN  SortAscending(
            [ n \in 1..Len(agg) |->
                [ day_num |-> agg[n].day_num,
                  day_name |-> agg[n].day_name,
                  revenue |-> agg[n].revenue,
                  orders |-> agg[n].orders,
                  avg_revenue |-> RoundedRatio(agg[n].revenue, agg[n].orders, 1),
                  index |-> Pct(agg[n].revenue * Len(agg), total) ] ],
            "day_num")

-----------------------------------------------------------------------------
(* calculate_prime_analysis *)

PrimeColumns == { "Order_Status", "Prime_Member", "Revenue_USD", "Profit", "Order Id", "Buyer_Email", "UnitsSold" }

\* lambda x: 'Prime' if x else 'Non-Prime'
is_prime(c) == IF c.v = 1 THEN "Prime" ELSE "Non-Prime"

calculate_prime_analysis(t) ==
    LET g == GroupBy(Completed(t), [r \in Range(Completed(t)) |-> <<r.Prime_Member.v>>])
        agg == [ n \in 1..Len(g) |->
                   [ is_prime |-> is_prime(g[n][1].Prime_Member),
                     revenue |-> Round2(Sum(g[n], "Revenue_USD")),
                     avg_order_value |-> RoundedRatio(Sum(g[n], "Revenue_USD"), 10 * Len(g[n]), 1),
                     profit |-> Round2(Sum(g[n], "Profit")),
                     orders |-> NUnique(g[n], "Order_Id"),
                     customers |-> NUnique(g[n], "Buyer_Email"),
                     units |-> Sum(g[n], "UnitsSold") ] ]
    IN  [ n \in 1..Len(agg) |->
            [ is_prime |-> agg[n].is_prime,
              revenue |-> agg[n].revenue,
              avg_order_value |-> agg[n].avg_order_value,
              profit |-> agg[n].profit,
              orders |-> agg[n].orders,
              customers |-> agg[n].customers,
              units |-> agg[n].units,
              orders_per_customer |-> RoundedRatio(agg[n].orders, agg[n].customers, 100),
              revenue_per_customer |-> RoundedRatio(agg[n].revenue, agg[n].customers, 1) ] ]

-----------------------------------------------------------------------------
(* calculate_shipping_performance *)

ShippingColumns == { "Order_Status", "Courier", "Order Id", "IsLate", "Shipping_Cost", "Days " }

ShippingLimit == 10

calculate_shipping_performance(t) ==
    LET g == GroupBy(Completed(t), [r \in Range(Completed(t)) |-> <<Rank(r.Courier)>>])
        agg == [ n \in 1..Len(g) |->
                   [ courier |-> g[n][1].Courier,
                     shipments |-> NUnique(g[n], "Order_Id"),
                     late_count |-> LateCount(g[n]),
                     late_rate |-> Pct(LateCount(g[n]), Len(g[n])),
                     avg_cost |-> RoundedRatio(Sum(g[n], "Shipping_Cost"), 10 * Len(g[n]), 1),
                     avg_days |-> RoundedRatio(Sum(g[n], "Days"), Count(g[n], "Days"), 10) ] ]
    IN  HeadN(SortDescending(
            [ n \in 1..Len(agg) |->
                [ courier |-> agg[n].courier,
                  shipments |-> agg[n].shipments,
                  late_count |-> agg[n].late_count,
                  late_rate |-> agg[n].late_rate,
                  avg_cost |-> agg[n].avg_cost,
                  avg_days |-> agg[n].avg_days,
                  \* a group has a row, so late_rate is finite
                  on_time_rate |-> Fin(10000 - agg[n].late_rate[2]) ] ],
            "shipments"), ShippingLimit)

-----------------------------------------------------------------------------
(* calculate_top_products *)

ProductColumns == { "Order_Status", "ProductName", "Category", "Brand", "Revenue_USD", "Profit", "UnitsSold", "Order Id" }

ProductLimit == 20

calculate_top_products(t) ==
    LET g == GroupBy(Completed(t), [r \in Range(Completed(t)) |-> <<Rank(r.ProductName), Rank(r.Category), Rank(r.Brand)>>])
        agg == [ n \in 1..Len(g) |->
                   [ product |-> g[n][1].ProductName,
                     category |-> g[n][1].Category,
                     brand |-> g[n][1].Brand,
                     revenue |-> Round2(Sum(g[n], "Revenue_USD")),
                     profit |-> Round2(Sum(g[n], "Profit")),
                     units |-> Sum(g[n], "UnitsSold"),
                     orders |-> NUnique(g[n], "Order_Id") ] ]
    IN  HeadN(SortDescending(
            [ n \in 1..Len(agg) |->
                [ product |-> agg[n].product,
                  category |-> agg[n].category,
                  brand |-> agg[n].brand,
                  revenue |-> agg[n].revenue,
                  profit |-> agg[n].profit,
                  units |-> agg[n].units,
                  orders |-> agg[n].orders,
                  profit_margin |-> Pct(agg[n].profit, agg[n].revenue) ] ],
            "revenue"), ProductLimit)

-----------------------------------------------------------------------------
(* calculate_top_brands *)

BrandColumns == { "Order_Status", "Brand", "Revenue_USD", "Profit", "UnitsSold", "Order Id" }

BrandLimit == 15

calculate_top_brands(t) ==
    LET g == GroupBy(Completed(t), [r \in Range(Completed(t)) |-> <<Rank(r.Brand)>>])
        agg == [ n \in 1..Len(g) |->
                   [ brand |-> g[n][1].Brand,
                     revenue |-> Round2(Sum(g[n], "Revenue_USD")),
                     profit |-> Round2(Sum(g[n], "Profit")),
                     units |-> Sum(g[n], "UnitsSold"),
                     orders |-> NUnique(g[n], "Order_Id") ] ]
        total == Total(agg, "revenue")
    IN  HeadN(SortDescending(
            [ n \in 1..Len(agg) |->
                [ brand |-> agg[n].brand,
                  revenue |-> agg[n].revenue,
                  profit |-> agg[n].profit,
                  units |-> agg[n].units,
                  orders |-> agg[n].orders,
                  market_share |-> Pct(agg[n].revenue, total) ] ],
            "revenue"), BrandLimit)

-----------------------------------------------------------------------------
(* calculate_order_status_distribution *)

StatusColumns == { "Order_Status", "Order Id", "Revenue_USD", "Refund_Amount" }

calculate_order_status_distribution(t) ==
    LET g == GroupBy(t.rows, [r \in Range(t.rows) |-> <<Rank(r.Order_Status)>>])
        agg == [ n \in 1..Len(g) |->
                   [ status |-> g[n][1].Order_Status,
                     orders |-> NUnique(g[n], "Order_Id"),
                     revenue |-> Round2(Sum(g[n], "Revenue_USD")),
                     refunds |-> Round2(Sum(g[n], "Refund_Amount")) ] ]
        total == Total(agg, "orders")
    IN  [ n \in 1..Len(agg) |->
            [ status |-> agg[n].status,
              orders |-> agg[n].orders,
              revenue |-> agg[n].revenue,
              refunds |-> agg[n].refunds,
              order_share |-> Pct(agg[n].orders, total) ] ]

-----------------------------------------------------------------------------
(* main *)

\* the twelve views in the order main calls them, by document key
Views ==
    << "kpis", "monthly_trends", "category_performance", "regional_performance",
       "channel_performance", "payment_analysis", "day_of_week", "prime_analysis",
       "shipping_performance", "top_products", "top_brands", "order_status" >>

\* the keys of dashboard_data in the order json.dump writes them
DocumentKeys == <<"generated_at">> \o Views

ViewColumns(v) ==
    CASE v = "kpis" -> KpiColumns
      [] v = "monthly_trends" -> MonthlyColumns
      [] v = "category_performance" -> CategoryColumns
      [] v = "regional_performance" -> RegionalColumns
      [] v = "channel_performance" -> ChannelColumns
      [] v = "payment_analysis" -> PaymentColumns
      [] v = "day_of_week" -> DayColumns
      [] v = "prime_analysis" -> PrimeColumns
      [] v = "shipping_performance" -> ShippingColumns
      [] v = "top_products" -> ProductColumns
      [] v = "top_brands" -> BrandColumns
      [] v = "order_status" -> StatusColumns

\* the view raises: KeyError on a column the table lacks; calculate_kpis
\* also when no row has an order date
ViewRaises(v, t) ==
    IF v = "kpis" THEN KpisRaises(t) ELSE ~(ViewColumns(v) \subseteq t.columns)

ViewResult(v, t) ==
    CASE v = "kpis" -> calculate_kpis(t)
      [] v = "monthly_trends" -> calculate_monthly_trends(t)
      [] v = "category_performance" -> calculate_category_performance(t)
      [] v = "regional_performance" -> calculate_regional_performance(t)
      [] v = "channel_performance" -> calculate_channel_performance(t)
      [] v = "payment_analysis" -> calculate_payment_analysis(t)
      [] v = "day_of_week" -> calculate_day_of_week_analysis(t)
      [] v = "prime_analysis" -> calculate_prime_analysis(t)
      [] v = "shipping_performance" -> calculate_shipping_performance(t)
      [] v = "top_products" -> calculate_top_products(t)
      [] v = "top_brands" -> calculate_top_brands(t)
      [] v = "order_status" -> calculate_order_status_distribution(t)

\* main's position after view number k returned
AfterView(k) == IF k = Len(Views) THEN "compile" ELSE Views[k + 1]

NoTable == [ columns |-> {}, rows |-> <<>> ]
NoFile == [ status |-> "untouched", keys |-> {} ]

\* os.makedirs(OUTPUT_DIR, exist_ok=True)
MakeDirs ==
    /\ pc = "makedirs"
    /\ pc' = "load"
    /\ UNCHANGED <<raw, df, out, dashboard_data, file, failed>>

\* main with the output file opened before the data is loaded
LoadAndCleanData_file_opened_first ==
    /\ pc = "load"
    /\ file' = [ status |-> "truncated", keys |-> {} ]
    /\ IF ~raw.readable \/ LoadRaises(raw)
       THEN /\ pc' = "aborted"
            /\ failed' = "load"
            /\ df' = df
       ELSE /\ pc' = Views[1]
            /\ failed' = failed
            /\ df' = CleanTable(raw)
    /\ UNCHANGED <<raw, out, dashboard_data>>

\* df = load_and_clean_data(): read_excel raises on an unreadable source
LoadAndCleanData ==
    /\ pc = "load"
    /\ IF ~raw.readable \/ LoadRaises(raw)
       THEN /\ pc' = "aborted"
            /\ failed' = "load"
            /\ df' = df
       ELSE /\ pc' = Views[1]
            /\ failed' = failed
            /\ df' = CleanTable(raw)
    /\ UNCHANGED <<raw, out, dashboard_data, file>>

\* <name> = calculate_<view>(df) for view number k: the view raises, or it
\* returns result
RunView(k, raises, result) ==
    /\ pc = Views[k]
    /\ IF raises
       THEN /\ pc' = "aborted"
            /\ failed' = Views[k]
            /\ out' = out
       ELSE /\ pc' = AfterView(k)
            /\ failed' = failed
            /\ out' = (Views[k] :> result) @@ out
    /\ UNCHANGED <<raw, df, dashboard_data, file>>

\* subscripting a column the table lacks raises KeyError
Lacks(t, columns) == ~(columns \subseteq t.columns)

CalculateKpis ==
    pc = "kpis" /\ RunView(1, KpisRaises(df), calculate_kpis(df))
CalculateMonthlyTrends ==
    pc = "monthly_trends" /\ RunView(2, Lacks(df, MonthlyColumns), calculate_monthly_trends(df))
CalculateCategoryPerformance ==
    pc = "category_performance" /\ RunView(3, Lacks(df, CategoryColumns), calculate_category_performance(df))
CalculateRegionalPerformance ==
    pc = "regional_performance" /\ RunView(4, Lacks(df, RegionalColumns), calculate_regional_performance(df))
CalculateChannelPerformance ==
    pc = "channel_performance" /\ RunView(5, Lacks(df, ChannelColumns), calculate_channel_performance(df))
CalculatePaymentAnalysis ==
    pc = "payment_analysis" /\ RunView(6, Lacks(df, PaymentColumns), calculate_payment_analysis(df))
CalculateDayOfWeekAnalysis ==
    pc = "day_of_week" /\ RunView(7, Lacks(df, DayColumns), calculate_day_of_week_analysis(df))
CalculatePrimeAnalysis ==
    pc = "prime_analysis" /\ RunView(8, Lacks(df, PrimeColumns), calculate_prime_analysis(df))
CalculateShippingPerformance ==
    pc = "shipping_performance" /\ RunView(9, Lacks(df, ShippingColumns), calculate_shipping_performance(df))
CalculateTopProducts ==
    pc = "top_products" /\ RunView(10, Lacks(df, ProductColumns), calculate_top_products(df))
CalculateTopBrands ==
    pc = "top_brands" /\ RunView(11, Lacks(df, BrandColumns), calculate_top_brands(df))
CalculateOrderStatusDistribution ==
    pc = "order_status" /\ RunView(12, Lacks(df, StatusColumns), calculate_order_status_distribution(df))

\* dashboard_data = { 'generated_at': ..., 'kpis': kpis, ... }
CompileDashboardData ==
    /\ pc = "compile"
    /\ dashboard_data' = ("generated_at" :> "now") @@ out
    /\ pc' = "open"
    /\ UNCHANGED <<raw, df, out, file, failed>>

\* open(output_file, 'w'): the file is created or truncated
OpenOutputFile ==
    /\ pc = "open"
    /\ file' = [ status |-> "truncated", keys |-> {} ]
    /\ pc' = "dump"
    /\ UNCHANGED <<raw, df, out, dashboard_data, failed>>

\* json.dump(dashboard_data, f, ...): writes the keys in order; the write
\* can stop with an OSError after any number of them
JsonDump ==
    /\ pc = "dump"
    /\ \E n \in 0..Len(DocumentKeys) :
         IF n = Len(DocumentKeys)
         THEN /\ file' = [ status |-> "complete", keys |-> DOMAIN dashboard_data ]
              /\ pc' = "summary"
              /\ failed' = failed
         ELSE /\ file' = [ status |-> "partial", keys |-> { DocumentKeys[i] : i \in 1..n } ]
              /\ pc' = "aborted"
              /\ failed' = "write"
    /\ UNCHANGED <<raw, df, out, dashboard_data>>

\* the prints of the summary (lines 377-387)
PrintSummary ==
    /\ pc = "summary"
    /\ pc' = "done"
    /\ UNCHANGED <<raw, df, out, dashboard_data, file, failed>>

NextViews ==
    \/ CalculateKpis
    \/ CalculateMonthlyTrends
    \/ CalculateCategoryPerformance
    \/ CalculateRegionalPerformance
    \/ CalculateChannelPerformance
    \/ CalculatePaymentAnalysis
    \/ CalculateDayOfWeekAnalysis
    \/ CalculatePrimeAnalysis
    \/ CalculateShippingPerformance
    \/ CalculateTopProducts
    \/ CalculateTopBrands
    \/ CalculateOrderStatusDistribution

Next ==
    \/ MakeDirs
    \/ LoadAndCleanData
    \/ NextViews
    \/ CompileDashboardData
    \/ OpenOutputFile
    \/ JsonDump
    \/ PrintSummary

-----------------------------------------------------------------------------
(* Inputs *)

\* a complete, well-formed row of the sheet
BaseRow ==
    [ Order_Id |-> "A1", Buyer_Email |-> "a@x.com", ProductName |-> "Kindle",
      Category |-> "Electronics", Brand |-> "Zen", Region |-> "US", Country |-> "US",
      Payment_Method |-> "Card", Courier |-> "DHL", Channel |-> "Online",
      Order_Status |-> "Completed",
      OrderDate |-> Date(0), Shipping_Date |-> Date(2), Expected_Delivery_Date |-> Date(5),
      Revenue_USD |-> Num(100000), Profit |-> Num(20000), UnitsSold |-> Num(2),
      UnitPrice |-> Num(50000), Shipping_Cost |-> Num(4995), TaxAmount |-> Num(8000),
      DiscountAmount |-> Num(0), Refund_Amount |-> Num(0), DiscountRate |-> Num(125),
      Payment_Fees |-> Num(2905), Days |-> Num(3),
      Prime_Member |-> Bool(TRUE), Late_Deliveries |-> "No" ]

\* the sequences over S of length at most n
SeqUpTo(S, n) == UNION { [ 1..k -> S ] : k \in 0..n }

Table(columns, rows) == [ readable |-> TRUE, columns |-> columns, rows |-> rows ]

\* main at its first statement, reading the table r
Start(r) ==
    /\ raw = r
    /\ df = NoTable
    /\ pc = "makedirs"
    /\ out = <<>>
    /\ dashboard_data = <<>>
    /\ file = NoFile
    /\ failed = "none"

\* main about to call view number k on the cleaned table of r, the views
\* before it having returned
AtView(r, k) ==
    /\ ~LoadRaises(r)
    /\ \A j \in 1..(k - 1) : ~ViewRaises(Views[j], CleanTable(r))
    /\ raw = r
    /\ df = CleanTable(r)
    /\ pc = Views[k]
    /\ out = [ v \in { Views[j] : j \in 1..(k - 1) } |-> ViewResult(v, CleanTable(r)) ]
    /\ dashboard_data = <<>>
    /\ file = NoFile
    /\ failed = "none"

-----------------------------------------------------------------------------
(* The run of main over a sheet whose schema may lack a column *)

MainRows ==
    { BaseRow,
      [ BaseRow EXCEPT !.Order_Id = "A2", !.Order_Status = "Cancelled", !.OrderDate = Txt(45),
                       !.Revenue_USD = Num(50000), !.Profit = Num(10000) ],
      [ BaseRow EXCEPT !.OrderDate = Bad ],
      [ BaseRow EXCEPT !.OrderDate = NA, !.Order_Status = None ] }

\* the full schema, and the full schema less one column
MainSchemas == { AllColumns } \cup { AllColumns \ {c} : c \in AllColumns }

Unreadable == [ readable |-> FALSE, columns |-> {}, rows |-> <<>> ]

MainInputs ==
    { Unreadable } \cup { Table(c, rows) : c \in MainSchemas, rows \in SeqUpTo(MainRows, MaxRows) }

Init == \E r \in MainInputs : Start(r)

Spec == Init /\ [][Next]_vars

-----------------------------------------------------------------------------
(* load_and_clean_data over sheets with missing and malformed cells *)

TextFields ==
    { "Order_Id", "Buyer_Email", "ProductName", "Category", "Brand", "Region",
      "Country", "Payment_Method", "Courier", "Channel", "Order_Status" }

CoercedFields ==
    { "Revenue_USD", "Profit", "UnitsSold", "UnitPrice", "Shipping_Cost",
      "TaxAmount", "DiscountAmount", "Refund_Amount" }

\* numeric columns the loader leaves as read; the model gives them numbers
\* and missing cells only
UncoercedFields == { "DiscountRate", "Payment_Fees", "Days" }

DateFields == { "OrderDate", "Shipping_Date", "Expected_Delivery_Date" }

\* what a cell of the sheet may hold instead of BaseRow's value
Corruptions ==
    { <<f, None>> : f \in TextFields \cup {"Late_Deliveries"} }
    \cup { <<"Late_Deliveries", x>> : x \in {"Yes", "YES", "yes", "Maybe"} }
    \cup { <<f, x>> : f \in CoercedFields, x \in {NA, Txt(1250), Bad} }
    \cup { <<f, NA>> : f \in UncoercedFields }
    \cup { <<"Prime_Member", x>> : x \in {NA, Num(0), Num(1), Txt(0), Bool(FALSE)} }
    \cup { <<f, x>> : f \in DateFields, x \in {NA, Txt(45), Bad} }

RECURSIVE SubsetsUpTo(_, _)
SubsetsUpTo(X, k) ==
    IF k = 0 THEN {{}}
    ELSE LET P == SubsetsUpTo(X, k - 1)
         IN  P \cup { p \cup {x} : p \in P, x \in X }

\* BaseRow with the cells named in cs replaced
Corrupt(cs) ==
    [ f \in DOMAIN BaseRow |->
        IF \E c \in cs : c[1] = f THEN (CHOOSE c \in cs : c[1] = f)[2] ELSE BaseRow[f] ]

\* sheets of n rows with the cells cs (<<row, <<field, value>>>>) replaced
CorruptTable(n, cs) ==
    Table(AllColumns, [ i \in 1..n |-> Corrupt({ c[2] : c \in { d \in cs : d[1] = i } }) ])

NormInputs ==
    { CorruptTable(n, cs) :
        n \in 0..MaxNormRows,
        cs \in { x \in SubsetsUpTo((1..MaxNormRows) \X Corruptions, MaxCorrupt) :
                   \A a, b \in x : (a[1] = b[1] /\ a[2][1] = b[2][1]) => a = b } }

\* main about to call load_and_clean_data
AtLoad(r) ==
    /\ raw = r
    /\ df = NoTable
    /\ pc = "load"
    /\ out = <<>>
    /\ dashboard_data = <<>>
    /\ file = NoFile
    /\ failed = "none"

InitNorm == \E r \in NormInputs : AtLoad(r)

SpecNorm == InitNorm /\ [][LoadAndCleanData]_vars

-----------------------------------------------------------------------------
(* The twelve views over sheets of orders of three kinds *)

\* a second customer, product, place and month; a sparse row
OtherRow ==
    [ BaseRow EXCEPT !.Order_Id = "A2", !.Buyer_Email = "b@x.com", !.ProductName = "Lamp",
                     !.Category = "Books", !.Brand = None, !.Region = "EU",
                     !.Country = "France", !.Payment_Method = "Cash", !.Courier = "FedEx",
                     !.Channel = "Affiliate", !.OrderDate = Txt(45), !.Prime_Member = Num(0),
                     !.Late_Deliveries = "YES", !.Days = Num(6), !.Shipping_Cost = Num(1250) ]

SparseRow ==
    [ BaseRow EXCEPT !.Order_Id = None, !.Buyer_Email = None, !.ProductName = None,
                     !.Category = None, !.Channel = None, !.OrderDate = NA,
                     !.Prime_Member = NA, !.Late_Deliveries = None, !.Days = NA,
                     !.DiscountRate = NA, !.Payment_Fees = NA ]

\* revenue and profit, in mills
Money == { <<0, 5>>, <<15, 5>>, <<1005, 25>> }

ViewRows ==
    { [ r EXCEPT !.Revenue_USD = Num(m[1]), !.Profit = Num(m[2]), !.Order_Status = st ] :
        r \in { BaseRow, OtherRow, SparseRow },
        m \in Money,
        st \in { "Completed", "Cancelled", None } }

InitViews == \E rows \in SeqUpTo(ViewRows, MaxViewRows) : AtView(Table(AllColumns, rows), 1)

SpecViews == InitViews /\ [][NextViews]_vars

-----------------------------------------------------------------------------
(* calculate_monthly_trends over sheets of orders in up to four periods *)

MonthlyRows ==
    { [ BaseRow EXCEPT !.OrderDate = d, !.Revenue_USD = Num(m), !.Order_Status = st ] :
        d \in { Date(0), Date(45), Date(60), NA },
        m \in { 0, 1005 },
        st \in { "Completed", "Cancelled" } }

InitMonthly == \E rows \in SeqUpTo(MonthlyRows, MaxMonthlyRows) : AtView(Table(AllColumns, rows), 2)

SpecMonthly == InitMonthly /\ [][CalculateMonthlyTrends]_vars

-----------------------------------------------------------------------------
(* calculate_category_performance over sheets of orders in up to three
   categories, with the revenues the loader admits *)

CategoryRows ==
    { [ BaseRow EXCEPT !.Category = c, !.Revenue_USD = Num(m), !.Order_Status = st ] :
        c \in { "Electronics", "Books", None },
        m \in { 0 - 500, 0, 15, 1005 },
        st \in { "Completed", "Cancelled" } }

InitCategory == \E rows \in SeqUpTo(CategoryRows, MaxCategoryRows) : AtView(Table(AllColumns, rows), 3)

SpecCategory == InitCategory /\ [][CalculateCategoryPerformance]_vars

-----------------------------------------------------------------------------
(* Properties *)

ViewSet == Range(Views)
Loaded == pc \notin {"makedirs", "load"} /\ failed # "load"
Computed(v) == v \in DOMAIN out

\* C7: the output file is opened only after load_and_clean_data and all
\* twelve views have returned, and the document written holds every key; when
\* loading or a view raises, the run ends with the file untouched (not
\* created, truncated or partly written).
C7_SinkOnlyAfterAllViews ==
    /\ file.status # "untouched" =>
          /\ Loaded
          /\ DOMAIN out = ViewSet
          /\ DOMAIN dashboard_data = Range(DocumentKeys)
          /\ failed \in {"none", "write"}
    /\ file.status = "complete" => file.keys = Range(DocumentKeys)
    /\ failed \in {"load"} \cup ViewSet => pc = "aborted" /\ file = NoFile

\* C7 witness: a view raised after other views had returned, and the run
\* ended with the file untouched
C7_ViewFailedFileUntouched ==
    /\ pc = "aborted"
    /\ failed = "shipping_performance"
    /\ Computed("prime_analysis")
    /\ file.status = "untouched"

MandatoryColumns == { "OrderDate", "Revenue_USD", "Order Id" }

\* C8: when the sheet lacks a mandatory column (OrderDate, Revenue_USD or
\* Order Id), the run aborts in load_and_clean_data: main never reaches the
\* call of a view.
C8_AbortsBeforeAnyView ==
    (raw.readable /\ ~(MandatoryColumns \subseteq raw.columns)) =>
        /\ pc \in {"makedirs", "load", "aborted"}
        /\ pc = "aborted" => failed = "load"

CategoricalFields ==
    { "Category", "Brand", "Region", "Country", "Payment_Method", "Courier",
      "Channel", "Order_Status" }

NumericMeasures ==
    { "Revenue_USD", "Profit", "UnitsSold", "UnitPrice", "Shipping_Cost",
      "TaxAmount", "DiscountAmount", "Refund_Amount", "DiscountRate", "Payment_Fees" }

\* C2: after load_and_clean_data every row has a value in every categorical
\* field and a number in every numeric measure, and IsLate and Prime_Member
\* are booleans.
C2_NoNullAfterLoad ==
    Loaded =>
        \A i \in 1..Len(df.rows) :
            /\ \A f \in CategoricalFields : df.rows[i][f] # None
            /\ \A f \in NumericMeasures : df.rows[i][f].t = "num"
            /\ df.rows[i].Prime_Member.t = "bool"
            /\ df.rows[i].IsLate \in BOOLEAN

\* C10: cleaning the cleaned table again changes nothing.
C10_CleanIsIdempotent == Loaded => CleanTable(df) = df

\* C10 witness: a sheet with a cell the loader had to convert or default was
\* loaded
C10_DefaultedCellLoaded ==
    /\ Loaded
    /\ Len(df.rows) > 0
    /\ \E i \in 1..Len(raw.rows) :
          \/ raw.rows[i].Prime_Member.t \in {"na", "num", "txt"}
          \/ raw.rows[i].Revenue_USD.t \in {"na", "txt", "bad"}
          \/ raw.rows[i].Brand = None
          \/ raw.rows[i].Late_Deliveries = None
          \/ raw.rows[i].OrderDate.t \in {"na", "txt"}

\* C5: the monthly trend lists the periods in ascending order; the first
\* period's revenue_growth is 0; revenue_ma3 of the first two periods is the
\* period's own revenue; from the third period on it is the mean, rounded to
\* 2 decimals, of the revenues of the period and the two before it.
C5_MonthlyTrend ==
    (Computed("monthly_trends") /\ Completed(df) # <<>>) =>
        LET m == out["monthly_trends"]
        IN  /\ Len(m) >= 1
            /\ \A i \in 1..(Len(m) - 1) : m[i].month < m[i + 1].month
            /\ m[1].revenue_growth = Fin(0)
            /\ \A i \in 1..Len(m) :
                  IF i <= 2
                  THEN m[i].revenue_ma3 = Fin(m[i].revenue)
                  ELSE m[i].revenue_ma3 =
                         Fin(RoundHalfEven(m[i].revenue + m[i - 1].revenue + m[i - 2].revenue, 3))

\* C5 witness: three periods whose revenues differ, the third one's moving
\* average not its own revenue
C5_ThreePeriods ==
    /\ Computed("monthly_trends")
    /\ Len(out["monthly_trends"]) >= 3
    /\ out["monthly_trends"][1].revenue # out["monthly_trends"][2].revenue
    /\ out["monthly_trends"][3].revenue_ma3 # Fin(out["monthly_trends"][3].revenue)

\* the rows are in descending order of revenue
Descending(res) == \A i \in 1..(Len(res) - 1) : res[i].revenue >= res[i + 1].revenue

\* the percentages in field f are finite and sum to 100 within the rounding
\* error of the rows (0.01 for each)
SumsTo100(res, f) ==
    /\ \A i \in 1..Len(res) : IsFinite(res[i][f])
    /\ LET sum == SumSeq([ i \in 1..Len(res) |-> res[i][f][2] ])
       IN  sum >= 10000 - Len(res) /\ sum <= 10000 + Len(res)

\* field f is finite and does not decrease from one row to the next
NonDecreasing(res, f) ==
    /\ \A i \in 1..Len(res) : IsFinite(res[i][f])
    /\ \A i \in 1..(Len(res) - 1) : res[i][f][2] <= res[i + 1][f][2]

CompletedOnly(t) == [ columns |-> t.columns, rows |-> Completed(t) ]

\* C1, on the tables with a Completed row that has an order date: each of
\* the eleven views other than the order-status distribution returns what it
\* returns on the Completed rows alone (every field, the KPI summary's
\* data_period included), and the order-status distribution has a row for
\* the status of every row of the table.
C1_OnlyCompletedRowsCount ==
    ~KpisRaises(CompletedOnly(df)) =>
        /\ \A v \in (DOMAIN out) \ {"order_status"} : out[v] = ViewResult(v, CompletedOnly(df))
        /\ Computed("order_status") =>
              \A i \in 1..Len(df.rows) :
                  \E n \in 1..Len(out["order_status"]) :
                      out["order_status"][n].status = df.rows[i].Order_Status

\* C3: on a table with a row, the order-status distribution has exactly one
\* row for each status in the table, every row of the table is counted in
\* the row of its status, and order_share sums to 100 within rounding.
C3_StatusDistribution ==
    (Computed("order_status") /\ Len(df.rows) >= 1) =>
        LET s == out["order_status"]
        IN  /\ \A i \in 1..Len(df.rows) :
                  \E n \in 1..Len(s) : s[n].status = df.rows[i].Order_Status
            /\ \A n \in 1..Len(s) :
                  \E i \in 1..Len(df.rows) : s[n].status = df.rows[i].Order_Status
            /\ \A a, b \in 1..Len(s) : s[a].status = s[b].status => a = b
            /\ \A n \in 1..Len(s) :
                  s[n].revenue =
                     Round2(Sum(SelectSeq(df.rows, LAMBDA r : r.Order_Status = s[n].status), "Revenue_USD"))
            /\ SumsTo100(s, "order_share")

AllFinite(res, fields) == \A i \in 1..Len(res) : \A f \in fields : IsFinite(res[i][f])

\* C6: a derived metric whose denominator is zero, or a mean over no rows,
\* is never nan or infinite in the output of a view.
C6_NoUndefinedMetric ==
    /\ Computed("kpis") =>
          /\ IsFinite(out["kpis"].profit_margin)
          /\ IsFinite(out["kpis"].avg_order_value)
    /\ Computed("monthly_trends") => AllFinite(out["monthly_trends"], {"revenue_growth"})
    /\ Computed("category_performance") =>
          AllFinite(out["category_performance"], {"profit_margin", "revenue_share"})
    /\ Computed("day_of_week") => AllFinite(out["day_of_week"], {"avg_revenue", "index"})

\* the ratios of the grouped views, recomputed from the rounded aggregates
\* in the rows the view returns
GroupedRatiosFromRounded ==
    /\ Computed("category_performance") =>
          LET c == out["category_performance"]
          IN  \A n \in 1..Len(c) :
                  /\ c[n].profit_margin = Pct(c[n].profit, c[n].revenue)
                  /\ c[n].revenue_share = Pct(c[n].revenue, Total(c, "revenue"))
    /\ Computed("regional_performance") =>
          LET c == out["regional_performance"]
          IN  \A n \in 1..Len(c) :
                  /\ c[n].avg_order_value = RoundedRatio(c[n].revenue, c[n].orders, 1)
                  /\ c[n].revenue_per_customer = RoundedRatio(c[n].revenue, c[n].customers, 1)
    /\ Computed("channel_performance") =>
          LET c == out["channel_performance"]
          IN  \A n \in 1..Len(c) : c[n].market_share = Pct(c[n].revenue, Total(c, "revenue"))
    /\ Computed("payment_analysis") =>
          LET c == out["payment_analysis"]
          IN  \A n \in 1..Len(c) : c[n].share = Pct(c[n].revenue, Total(c, "revenue"))
    /\ Computed("day_of_week") =>
          LET c == out["day_of_week"]
          IN  \A n \in 1..Len(c) :
                  /\ c[n].avg_revenue = RoundedRatio(c[n].revenue, c[n].orders, 1)
                  /\ c[n].index = Pct(c[n].revenue * Len(c), Total(c, "revenue"))
    /\ Computed("prime_analysis") =>
          LET c == out["prime_analysis"]
          IN  \A n \in 1..Len(c) :
                  /\ c[n].orders_per_customer = RoundedRatio(c[n].orders, c[n].customers, 100)
                  /\ c[n].revenue_per_customer = RoundedRatio(c[n].revenue, c[n].customers, 1)
    /\ Computed("shipping_performance") =>
          LET c == out["shipping_performance"]
          IN  \A n \in 1..Len(c) : c[n].on_time_rate = Fin(10000 - c[n].late_rate[2])
    /\ Computed("top_products") =>
          LET c == out["top_products"]
          IN  \A n \in 1..Len(c) : c[n].profit_margin = Pct(c[n].profit, c[n].revenue)
    /\ Computed("top_brands") =>
          LET c == out["top_brands"]
          IN  Len(c) < BrandLimit =>
                  \A n \in 1..Len(c) : c[n].market_share = Pct(c[n].revenue, Total(c, "revenue"))
    /\ Computed("order_status") =>
          LET c == out["order_status"]
          IN  \A n \in 1..Len(c) : c[n].order_share = Pct(c[n].orders, Total(c, "orders"))

\* C9 as stated: every derived ratio of every view is computed from the
\* rounded aggregates the view returns, the KPI summary's profit_margin
\* (from total_profit and total_revenue) included.
C9_RatiosFromRounded_KpisIncluded ==
    /\ GroupedRatiosFromRounded
    /\ Computed("kpis") =>
          out["kpis"].profit_margin = Pct(out["kpis"].total_profit, out["kpis"].total_revenue)

\* C9 amended: every derived ratio of the grouped views is computed from the
\* rounded aggregates the view returns; the KPI summary's profit_margin is
\* computed from the sums of Profit and Revenue_USD before they are rounded.
C9_RatiosFromRounded ==
    /\ GroupedRatiosFromRounded
    /\ Computed("kpis") =>
          out["kpis"].profit_margin =
             Pct(Sum(Completed(df), "Profit"), Sum(Completed(df), "Revenue_USD"))

\* C9 witness: all views returned, on a sheet where rounding the sums first
\* changes the margin: the KPI margin is not the ratio of the rounded totals
\* and a category's margin is not the ratio of its sums
C9_RoundingMatters ==
    /\ Computed("order_status")
    /\ out["kpis"].profit_margin # Pct(out["kpis"].total_profit, out["kpis"].total_revenue)
    /\ \E n \in 1..Len(out["category_performance"]) :
          LET row == out["category_performance"][n]
              g == SelectSeq(Completed(df), LAMBDA r : r.Category = row.category)
          IN  row.profit_margin # Pct(Sum(g, "Profit"), Sum(g, "Revenue_USD"))

====
